---- MODULE Spec2Model ----
(***************************************************************************)
(* The message bus of src/client/transport.rs: TcpMessageBus, its reader   *)
(* thread (process_messages / dispatch_message), the two SenderHash router *)
(* maps and the consumer handle ResponsePacketPromise.                     *)
(*                                                                         *)
(* Threads: one caller thread issuing sends (the bus is used through       *)
(* &mut self, so sends never overlap each other), the reader thread, and   *)
(* the consumers that own the returned promises.  The caller is split at   *)
(* the points where it touches shared state (map insert, the two socket    *)
(* writes, the recorder's counter); one pass of the reader's loop is one    *)
(* step.  MessageRecorder numbers the captured payloads with the process-  *)
(* global RECORDING_SEQ.                                                   *)
(***************************************************************************)
EXTENDS Integers, Sequences, FiniteSets, TLC

\* ------------------------------------------------------------------ bounds
MaxEvents == 3

\* --------------------------------------------------------------- constants
UNSPECIFIED_REQUEST_ID == -1

VARIABLES
    requests,       \* TcpMessageBus.requests : id -> channel of the registered Sender
    orders,         \* TcpMessageBus.orders   : id -> channel of the registered Sender
    chanOf,         \* per channel created by a send: [map, id] it was created for
    rx,             \* per channel: who holds the Receiver: "call", "promise", "dropped", "failed"
    queue,          \* per channel: payloads enqueued and not yet received
    yielded,        \* per channel: payloads the iterator has returned, in order
    signalled,      \* per channel: the consumer has called signal(id)
    timed_out,      \* per channel: Iterator::next has returned None
    signals,        \* per channel: ids delivered to the signals_in receiver
    wire,           \* per channel: how much of its frame is written: "none", "header", "frame"
    snd,            \* the caller thread: [op, pc, chan, id, afterErr]
    result,         \* what the last finished send returned: "none", "ok", "err"
    nplain,        \* number of plain write_message calls started
    rpc,            \* the reader thread: "read" (in its loop) or "panicked"
    nread,          \* number of frames taken off the socket
    transportErrs,  \* read attempts that failed with a transport error (EOF, reset)
    advanced,       \* server_version >= server_versions::ADVANCED_ORDER_REJECT: "yes", "no",
                    \* or "unknown" while the reader has not compared it yet
    enabled,        \* MessageRecorder.enabled: "yes", "no", or "unknown" while no
                    \* record_request / record_response has tested it yet
    RECORDING_SEQ,  \* the static AtomicUsize
    files,          \* the recording directory: the files written, in the order
                    \* their record ids were taken
    next_order_id   \* what the facade's next_order_id() has been handed by the reader

busVars  == <<requests, orders>>
chanVars == <<chanOf, rx, queue, yielded, signalled, timed_out, signals, wire>>
sndVars  == <<snd, result, nplain>>
rdrVars  == <<rpc, nread, transportErrs>>
recVars  == <<enabled, RECORDING_SEQ, files>>
vars     == <<requests, orders, chanOf, rx, queue, yielded, signalled, timed_out, signals,
              wire, snd, result, nplain, rpc, nread, transportErrs, advanced,
              enabled, RECORDING_SEQ, files, next_order_id>>

\* The socket's read side has failed: every later read_exact fails too.
eof == transportErrs > 0

\* ------------------------------------------------------- payloads and codec
\* The correlation ids in use (routing only compares ids for equality).
Ids == {1, 2}

\* Option<T> is a set with at most one element.
unwrap_or(opt, d) == IF opt = {} THEN d ELSE CHOOSE v \in opt : TRUE

\* The integers whose decimal text occurs in the modelled payloads.
ParseDomain == {-1} \cup Ids \cup {100, 321, 502}

\* The decimal text of each of them.
IntText == [i \in ParseDomain |-> ToString(i)]

\* str::parse::<i32>: the text of an integer parses to it, anything else fails.
parse_int(s) == {i \in ParseDomain : IntText[i] = s}

\* ResponseMessage::peek_int(i): field i (0-based) as an integer, not consuming.
peek_int(p, i) == IF i < Len(p) THEN parse_int(p[i + 1]) ELSE {}

\* ResponseMessage::next_int() with the cursor at field i.
next_int(p, i) == peek_int(p, i)

\* ResponseMessage::next_string() with the cursor at field i succeeds iff the field exists.
has_string(p, i) == i < Len(p)

\* IncomingMessages: the discriminator is the first field.
message_type(p) ==
    CASE p[1] = "4"  -> "Error"
      [] p[1] = "9"  -> "NextValidId"
      [] p[1] = "15" -> "ManagedAccounts"
      [] p[1] = "3"  -> "OrderStatus"
      [] p[1] = "5"  -> "OpenOrder"
      [] p[1] = "53" -> "OpenOrderEnd"
      [] p[1] = "11" -> "ExecutionData"
      [] p[1] = "55" -> "ExecutionDataEnd"
      [] p[1] = "59" -> "CommissionsReport"
      [] p[1] = "10" -> "ContractData"
      [] OTHER       -> "NotValid"

\* ResponseMessage::request_id(): the field that carries the request id, by kind.
request_id(p) ==
    CASE message_type(p) \in {"ContractData", "ExecutionData"}  -> peek_int(p, 1)
      [] message_type(p) \in {"Error", "ExecutionDataEnd"}      -> peek_int(p, 2)
      [] OTHER                                                  -> {}

\* ResponseMessage::order_id(): the field that carries the order id, by kind.
order_id(p) ==
    CASE message_type(p) \in {"OpenOrder", "OrderStatus"}  -> peek_int(p, 1)
      [] message_type(p) = "ExecutionData"                 -> peek_int(p, 2)
      [] OTHER                                             -> {}

\* The frames the server may send (field 0 first), after String::from_utf8.
Payloads ==
         {<<"10", ToString(i), "TSLA">> : i \in Ids}
    \cup {<<"4", "2", "1", "321", "some failure", "">>}
    \cup {<<"4", "2", "-1", "502", "connection lost", "">>,
          <<"4", "2", "-1", "502", "connection lost">>,
          <<"4", "2", "-1", "x", "connection lost", "">>}
    \cup {<<"9", "1", "100">>}
    \cup {<<"15", "1", "DU1236109">>}
    \cup {<<"3", ToString(i), "PreSubmitted">> : i \in Ids}
    \cup {<<"5", "1", "76792991", "TSLA">>}
    \cup {<<"11", "-1", "1", "76792991">>, <<"11", "2", "1", "76792991">>}
    \cup {<<"55", "1", "1">>}

\* ------------------------------------------------------------- router maps
EmptyMap == [x \in {} |-> 0]

\* SenderHash::contains
contains(map, id) == id \in DOMAIN map

id_in_requests(id) == contains(requests, id)
id_in_orders(id) == contains(orders, id)

\* Mutant: an id that is present keeps its sender.
insert_keep_first(map, id, c) ==
    [x \in DOMAIN map \cup {id} |-> IF x \in DOMAIN map THEN map[x] ELSE c]

\* SenderHash::insert: overwrites the entry of id.
insert(map, id, c) == [x \in DOMAIN map \cup {id} |-> IF x = id THEN c ELSE map[x]]

\* crossbeam Sender::send on channel c: fails iff the Receiver has been dropped.
receiver_alive(c) == rx[c] \in {"call", "promise"}

\* Mutant: the message goes to every live sender of the map, whatever its id.
SenderHash_send_all(map, id, m, q) ==
    [c \in DOMAIN q |->
        IF (\E x \in DOMAIN map : map[x] = c) /\ receiver_alive(c)
        THEN Append(q[c], m) ELSE q[c]]

\* Mutant: the message is queued even when the Receiver is gone.
SenderHash_send_to_closed(map, id, m, q) ==
    IF id \in DOMAIN map THEN [q EXCEPT ![map[id]] = Append(@, m)] ELSE q

\* SenderHash::send: enqueue on the sender registered for id; a missing id or a
\* disconnected channel is logged and the message discarded; always Ok(()).
SenderHash_send(map, id, m, q) ==
    IF id \in DOMAIN map /\ receiver_alive(map[id])
    THEN [q EXCEPT ![map[id]] = Append(@, m)]
    ELSE q

\* Mutant: the orders map is consulted before the requests map.
process_response_orders_first(m, q) ==
    LET rid == unwrap_or(request_id(m.p), -1) IN
    IF id_in_orders(rid) THEN SenderHash_send(orders, rid, m, q)
    ELSE IF id_in_requests(rid) THEN SenderHash_send(requests, rid, m, q)
    ELSE q

\* Mutant: a reply whose id is in neither map goes to every live request sink.
process_response_miss_to_all(m, q) ==
    LET rid == unwrap_or(request_id(m.p), -1) IN
    IF contains(requests, rid) THEN SenderHash_send(requests, rid, m, q)
    ELSE IF contains(orders, rid) THEN SenderHash_send(orders, rid, m, q)
    ELSE SenderHash_send_all(requests, rid, m, q)

\* process_response: requests first, then orders.
process_response(m, q) ==
    LET rid == unwrap_or(request_id(m.p), -1) IN
    IF contains(requests, rid) THEN SenderHash_send(requests, rid, m, q)
    ELSE IF contains(orders, rid) THEN SenderHash_send(orders, rid, m, q)
    ELSE q

\* Mutant: the request id is preferred to the order id.
process_order_notifications_request_first(m, q) ==
    IF message_type(m.p) \in {"OrderStatus", "OpenOrder", "ExecutionData"}
    THEN IF request_id(m.p) # {}
         THEN SenderHash_send(requests, unwrap_or(request_id(m.p), -1), m, q)
         ELSE IF order_id(m.p) # {}
              THEN SenderHash_send(orders, unwrap_or(order_id(m.p), -1), m, q)
              ELSE q
    ELSE q

\* Mutant: an order id that is not in orders is looked up in requests.
process_order_notifications_retry_in_requests(m, q) ==
    IF message_type(m.p) \in {"OrderStatus", "OpenOrder", "ExecutionData"}
    THEN IF order_id(m.p) # {}
         THEN IF contains(orders, unwrap_or(order_id(m.p), -1))
              THEN SenderHash_send(orders, unwrap_or(order_id(m.p), -1), m, q)
              ELSE SenderHash_send(requests, unwrap_or(order_id(m.p), -1), m, q)
         ELSE IF request_id(m.p) # {}
              THEN SenderHash_send(requests, unwrap_or(request_id(m.p), -1), m, q)
              ELSE q
    ELSE q

\* process_order_notifications: order id first, then request id; the three
\* end-marker kinds fall into the empty arm.
process_order_notifications(m, q) ==
    IF message_type(m.p) \in {"OrderStatus", "OpenOrder", "ExecutionData"}
    THEN IF order_id(m.p) # {}
         THEN SenderHash_send(orders, unwrap_or(order_id(m.p), -1), m, q)
         ELSE IF request_id(m.p) # {}
              THEN SenderHash_send(requests, unwrap_or(request_id(m.p), -1), m, q)
              ELSE q
    ELSE q

\* error_event gets as far as comparing server_version with ADVANCED_ORDER_REJECT.
error_event_reads_version(p) ==
    LET version == next_int(p, 1) IN
    /\ version # {}
    /\ unwrap_or(version, 0) >= 2
    /\ next_int(p, 2) # {}
    /\ next_int(p, 3) # {}
    /\ has_string(p, 4)

\* error_event: TRUE iff it returns Ok(()); every `?` is a field that must parse.
error_event(adv, p) ==
    LET version == next_int(p, 1) IN
    IF version = {} THEN FALSE
    ELSE IF unwrap_or(version, 0) < 2 THEN has_string(p, 2)
    ELSE /\ next_int(p, 2) # {}
         /\ next_int(p, 3) # {}
         /\ has_string(p, 4)
         /\ (adv => has_string(p, 5))

\* Mutant: every Error is handled as a connection-level event, whatever its id.
dispatch_message_errors_as_events(m, q, adv) ==
    LET kind == message_type(m.p) IN
    CASE kind = "Error" -> [q |-> q, panic |-> ~error_event(adv, m.p)]
      [] kind \in {"NextValidId", "ManagedAccounts"} -> [q |-> q, panic |-> FALSE]
      [] kind \in {"OrderStatus", "OpenOrder", "OpenOrderEnd", "ExecutionData",
                   "ExecutionDataEnd", "CommissionsReport"} ->
            [q |-> process_order_notifications(m, q), panic |-> FALSE]
      [] OTHER -> [q |-> process_response(m, q), panic |-> FALSE]

\* Mutant: a broadcast error is also put on every registered stream.
dispatch_message_broadcast_to_all(m, q, adv) ==
    LET kind == message_type(m.p) IN
    CASE kind = "Error" ->
            IF unwrap_or(peek_int(m.p, 2), -1) = UNSPECIFIED_REQUEST_ID
            THEN [q |-> SenderHash_send_all(orders, -1, m,
                            SenderHash_send_all(requests, -1, m, q)),
                  panic |-> ~error_event(adv, m.p)]
            ELSE [q |-> process_response(m, q), panic |-> FALSE]
      [] kind \in {"NextValidId", "ManagedAccounts"} -> [q |-> q, panic |-> FALSE]
      [] kind \in {"OrderStatus", "OpenOrder", "OpenOrderEnd", "ExecutionData",
                   "ExecutionDataEnd", "CommissionsReport"} ->
            [q |-> process_order_notifications(m, q), panic |-> FALSE]
      [] OTHER -> [q |-> process_response(m, q), panic |-> FALSE]

\* dispatch_message: the queues after routing m, and whether the thread panicked
\* (error_event(..).unwrap() on an Err).
dispatch_message(m, q, adv) ==
    LET kind == message_type(m.p) IN
    CASE kind = "Error" ->
            IF unwrap_or(peek_int(m.p, 2), -1) = UNSPECIFIED_REQUEST_ID
            THEN [q |-> q, panic |-> ~error_event(adv, m.p)]
            ELSE [q |-> process_response(m, q), panic |-> FALSE]
      [] kind \in {"NextValidId", "ManagedAccounts"} -> [q |-> q, panic |-> FALSE]
      [] kind \in {"OrderStatus", "OpenOrder", "OpenOrderEnd", "ExecutionData",
                   "ExecutionDataEnd", "CommissionsReport"} ->
            [q |-> process_order_notifications(m, q), panic |-> FALSE]
      [] OTHER -> [q |-> process_response(m, q), panic |-> FALSE]

\* This dispatch compares server_version (in error_event).
reads_server_version(p) ==
    /\ message_type(p) = "Error"
    /\ unwrap_or(peek_int(p, 2), -1) = UNSPECIFIED_REQUEST_ID
    /\ error_event_reads_version(p)

\* ----------------------------------------------------------------- recorder
\* Mutant: the counter is read but not advanced.
fetch_add_lost(seq) == seq

\* RECORDING_SEQ.fetch_add(1, Ordering::SeqCst): the counter after the call (the
\* call returns the value before it, which becomes the record id).
fetch_add(seq) == seq + 1

\* request_file / response_file: the file of a record, by record id and direction.
record_file(record_id, kind) == [id |-> record_id, kind |-> kind]

\* What `enabled` can turn out to be when a record call tests it: it was set by
\* MessageRecorder::new from IBAPI_RECORDING_DIR and never changes afterwards.
enabled_values == IF enabled = "unknown" THEN {"yes", "no"} ELSE {enabled}

\* ------------------------------------------------------------ caller thread
Idle == [op |-> "none", pc |-> 0, chan |-> 0, id |-> 0, afterErr |-> FALSE]

\* The caller thread after a panic unwound it.
Panicked == [op |-> "panicked", pc |-> 0, chan |-> 0, id |-> 0, afterErr |-> FALSE]

\* write_message: header, then data (each write_all may fail and return early),
\* then self.recorder.record_request(message).
write_message_steps == <<"header", "data", "record">>

\* Mutant: the frame is written before the id is registered.
write_then_add_request_steps == write_message_steps \o <<"add_request">>

\* write_message_for_request: add_request, then write_message; Ok(promise) follows.
write_message_for_request_steps == <<"add_request">> \o write_message_steps

\* Mutant: the order is registered only after its frame is written.
write_then_add_order_steps == write_message_steps \o <<"add_order">>

\* send_order_message: add_order, then write_message; Ok(promise) follows.
send_order_message_steps == <<"add_order">> \o write_message_steps

Steps(op) ==
    CASE op = "request" -> write_message_for_request_steps
      [] op = "order"   -> send_order_message_steps
      [] op = "plain"   -> write_message_steps
      [] OTHER          -> <<>>

Step == IF snd.op \in {"none", "panicked"} THEN "idle" ELSE Steps(snd.op)[snd.pc]

NChan == Len(chanOf)
Chans == 1..NChan

\* What the environment has done so far: sends started, frames delivered to the
\* reader, failed reads, streams whose consumer waited in vain or called signal.
Events == NChan + nplain + nread + transportErrs
          + Cardinality({c \in Chans : timed_out[c]})
          + Cardinality({c \in Chans : signalled[c]})

\* The call returns Ok: a registering send hands its Receiver to the promise
\* (Ok(ResponsePacketPromise::new(receiver, signals_out))); signals_in is dropped.
ReturnOk ==
    /\ snd' = Idle
    /\ result' = "ok"
    /\ rx' = IF snd.chan # 0 THEN [rx EXCEPT ![snd.chan] = "promise"] ELSE rx

\* The call returns Err through `?`: the Receiver local to the call is dropped.
ReturnErr ==
    /\ snd' = Idle
    /\ result' = "err"
    /\ rx' = IF snd.chan # 0 THEN [rx EXCEPT ![snd.chan] = "failed"] ELSE rx
    /\ queue' = IF snd.chan # 0 THEN [queue EXCEPT ![snd.chan] = <<>>] ELSE queue

\* The caller thread panics: it never returns, and unwinding drops the Receiver
\* local to the call.
Panic ==
    /\ snd' = Panicked
    /\ result' = result
    /\ rx' = IF snd.chan # 0 THEN [rx EXCEPT ![snd.chan] = "failed"] ELSE rx
    /\ queue' = IF snd.chan # 0 THEN [queue EXCEPT ![snd.chan] = <<>>] ELSE queue

\* The step at snd.pc succeeded: go on, or return Ok after the last one.
Advance ==
    IF snd.pc < Len(Steps(snd.op))
    THEN /\ snd' = [snd EXCEPT !.pc = @ + 1]
         /\ UNCHANGED <<result, rx>>
    ELSE ReturnOk

\* Entry of write_message_for_request / send_order_message: the two channels are created.
CallSend(op, id) ==
    /\ snd.op = "none"
    /\ Events < MaxEvents
    /\ snd' = [op |-> op, pc |-> 1, chan |-> NChan + 1, id |-> id,
               afterErr |-> eof]
    /\ result' = "none"
    /\ chanOf' = Append(chanOf, [map |-> op, id |-> id])
    /\ rx' = Append(rx, "call")
    /\ queue' = Append(queue, <<>>)
    /\ yielded' = Append(yielded, <<>>)
    /\ signalled' = Append(signalled, FALSE)
    /\ timed_out' = Append(timed_out, FALSE)
    /\ signals' = Append(signals, <<>>)
    /\ wire' = Append(wire, "none")
    /\ UNCHANGED <<busVars, nplain, rdrVars, advanced, recVars, next_order_id>>

\* Entry of a plain write_message call (no registration, no stream).
CallWriteMessage ==
    /\ snd.op = "none"
    /\ Events < MaxEvents
    /\ snd' = [op |-> "plain", pc |-> 1, chan |-> 0, id |-> 0,
               afterErr |-> eof]
    /\ result' = "none"
    /\ nplain' = nplain + 1
    /\ UNCHANGED <<busVars, chanVars, rdrVars, advanced, recVars, next_order_id>>

\* add_request: self.requests.insert(request_id, sender)
AddRequest ==
    /\ Step = "add_request"
    /\ requests' = insert(requests, snd.id, snd.chan)
    /\ Advance
    /\ UNCHANGED <<orders, chanOf, queue, yielded, signalled, timed_out, signals, wire,
                   nplain, rdrVars, advanced, recVars, next_order_id>>

\* add_order: self.orders.insert(order_id, sender)
AddOrder ==
    /\ Step = "add_order"
    /\ orders' = insert(orders, snd.id, snd.chan)
    /\ Advance
    /\ UNCHANGED <<requests, chanOf, queue, yielded, signalled, timed_out, signals, wire,
                   nplain, rdrVars, advanced, recVars, next_order_id>>

\* self.writer.write_all(&header)?
WriteHeader ==
    /\ Step = "header"
    /\ \E ok \in BOOLEAN :
          IF ok
          THEN /\ wire' = IF snd.chan # 0 THEN [wire EXCEPT ![snd.chan] = "header"] ELSE wire
               /\ Advance
               /\ UNCHANGED queue
          ELSE /\ ReturnErr
               /\ UNCHANGED wire
    /\ UNCHANGED <<busVars, chanOf, yielded, signalled, timed_out, signals, nplain, rdrVars, advanced, recVars, next_order_id>>

\* self.writer.write_all(data)?
WriteData ==
    /\ Step = "data"
    /\ \E ok \in BOOLEAN :
          IF ok
          THEN /\ wire' = IF snd.chan # 0 THEN [wire EXCEPT ![snd.chan] = "frame"] ELSE wire
               /\ Advance
               /\ UNCHANGED queue
          ELSE /\ ReturnErr
               /\ UNCHANGED wire
    /\ UNCHANGED <<busVars, chanOf, yielded, signalled, timed_out, signals, nplain, rdrVars, advanced, recVars, next_order_id>>

\* self.recorder.record_request(message): nothing when the recorder is disabled;
\* otherwise the next record id is taken and the file written, and a failed
\* fs::write panics through unwrap().
RecordRequest ==
    /\ Step = "record"
    /\ \E en \in enabled_values :
          /\ enabled' = en
          /\ IF en = "no"
             THEN /\ Advance
                  /\ UNCHANGED <<RECORDING_SEQ, files, queue>>
             ELSE /\ RECORDING_SEQ' = fetch_add(RECORDING_SEQ)
                  /\ \E ok \in BOOLEAN :
                        IF ok
                        THEN /\ files' = Append(files, record_file(RECORDING_SEQ, "request"))
                             /\ Advance
                             /\ UNCHANGED queue
                        ELSE /\ Panic
                             /\ UNCHANGED files
    /\ UNCHANGED <<busVars, chanOf, yielded, signalled, timed_out, signals, wire,
                   nplain, rdrVars, advanced, next_order_id>>

\* ------------------------------------------------------------ reader thread
\* One pass of the loop in process_messages where read_packet returns Ok(message)
\* with payload p: the message is handed to dispatch_message.  The message is the
\* (nread + 1)-th frame taken off the socket.  server_version is the argument
\* process_messages was given: one value for the life of the reader, decided
\* here the first time a dispatch compares it.  recorder.record_response(&message)
\* comes first: with the recorder enabled it takes the next record id and writes
\* the file, and a failed fs::write panics through unwrap() before the dispatch.
ReadAndDispatch(p) ==
    /\ rpc = "read"
    /\ ~eof
    /\ Events < MaxEvents
    /\ nread' = nread + 1
    /\ \E en \in enabled_values :
       \E ok \in IF en = "yes" THEN BOOLEAN ELSE {TRUE} :
          /\ enabled' = en
          /\ RECORDING_SEQ' = IF en = "yes" THEN fetch_add(RECORDING_SEQ) ELSE RECORDING_SEQ
          /\ files' = IF en = "yes" /\ ok
                      THEN Append(files, record_file(RECORDING_SEQ, "response"))
                      ELSE files
          /\ IF ok
             THEN \E sv \in IF reads_server_version(p) /\ advanced = "unknown"
                             THEN {"yes", "no"} ELSE {advanced} :
                     /\ advanced' = sv
                     /\ LET r == dispatch_message([n |-> nread + 1, p |-> p], queue, sv = "yes") IN
                           /\ queue' = r.q
                           /\ rpc' = IF r.panic THEN "panicked" ELSE "read"
             ELSE /\ rpc' = "panicked"
                  /\ UNCHANGED <<queue, advanced>>
    /\ UNCHANGED <<busVars, chanOf, rx, yielded, signalled, timed_out, signals, wire,
                   sndVars, transportErrs, next_order_id>>

\* read_packet returns Err: String::from_utf8(data)? failed; the loop continues.
ReadBadUtf8 ==
    /\ rpc = "read"
    /\ ~eof
    /\ Events < MaxEvents
    /\ nread' = nread + 1
    /\ UNCHANGED <<busVars, chanVars, sndVars, rpc, transportErrs, advanced, recVars, next_order_id>>

\* read_packet returns Err: read_exact failed (EOF, reset); the loop continues,
\* and every later read_exact on the closed socket fails again.
ReadTransportError ==
    /\ rpc = "read"
    /\ Events < MaxEvents
    /\ transportErrs' = transportErrs + 1
    /\ UNCHANGED <<busVars, chanVars, sndVars, rpc, nread, advanced, recVars, next_order_id>>

\* ---------------------------------------------------------------- consumers
\* Mutant: the newest queued element is received first.
recv_newest(q) == Len(q)

\* What recv_timeout takes from a queue: its oldest element.
recv_index(q) == 1

\* Iterator::next: Some(message) when one is queued; None when recv_timeout gives
\* up after 10 s (further timeouts of the same stream change nothing more).
IterNext(c) ==
    /\ rx[c] = "promise"
    /\ IF queue[c] # <<>>
       THEN LET i == recv_index(queue[c]) IN
            /\ yielded' = [yielded EXCEPT ![c] = Append(@, queue[c][i])]
            /\ queue' = [queue EXCEPT ![c] =
                            SubSeq(queue[c], 1, i - 1) \o SubSeq(queue[c], i + 1, Len(queue[c]))]
            /\ UNCHANGED timed_out
       ELSE /\ ~timed_out[c]
            /\ Events < MaxEvents
            /\ timed_out' = [timed_out EXCEPT ![c] = TRUE]
            /\ UNCHANGED <<queue, yielded>>
    /\ UNCHANGED <<busVars, chanOf, rx, signalled, signals, wire, sndVars, rdrVars,
                   advanced, recVars, next_order_id>>

\* ResponsePacketPromise::signal: self.signals.send(id); the result is ignored.
\* The signals_in Receiver lives only while the creating call runs.
Signal(c) ==
    /\ rx[c] = "promise"
    /\ ~signalled[c]
    /\ Events < MaxEvents
    /\ signalled' = [signalled EXCEPT ![c] = TRUE]
    /\ signals' = IF rx[c] = "call" THEN [signals EXCEPT ![c] = Append(@, chanOf[c].id)]
                  ELSE signals
    /\ UNCHANGED <<busVars, chanOf, rx, queue, yielded, timed_out, wire, sndVars, rdrVars,
                   advanced, recVars, next_order_id>>

\* The promise goes out of scope: its Receiver and signals Sender are dropped.
\* ResponsePacketPromise has no Drop impl.
DropPromise(c) ==
    /\ rx[c] = "promise"
    /\ rx' = [rx EXCEPT ![c] = "dropped"]
    /\ queue' = [queue EXCEPT ![c] = <<>>]
    /\ UNCHANGED <<busVars, chanOf, yielded, signalled, timed_out, signals, wire,
                   sndVars, rdrVars, advanced, recVars, next_order_id>>

\* ------------------------------------------------------------ specification
Init ==
    /\ requests = EmptyMap
    /\ orders = EmptyMap
    /\ chanOf = <<>>
    /\ rx = <<>>
    /\ queue = <<>>
    /\ yielded = <<>>
    /\ signalled = <<>>
    /\ timed_out = <<>>
    /\ signals = <<>>
    /\ wire = <<>>
    /\ snd = Idle
    /\ result = "none"
    /\ nplain = 0
    /\ rpc = "read"
    /\ nread = 0
    /\ transportErrs = 0
    /\ advanced = "unknown"
    /\ enabled = "unknown"
    /\ RECORDING_SEQ = 0
    /\ files = <<>>
    /\ next_order_id = {}

Next ==
    \/ \E id \in Ids : CallSend("request", id)
    \/ \E id \in Ids : CallSend("order", id)
    \/ CallWriteMessage
    \/ AddRequest
    \/ AddOrder
    \/ WriteHeader
    \/ WriteData
    \/ RecordRequest
    \/ \E p \in Payloads : ReadAndDispatch(p)
    \/ ReadBadUtf8
    \/ ReadTransportError
    \/ \E c \in Chans : IterNext(c)
    \/ \E c \in Chans : Signal(c)
    \/ \E c \in Chans : DropPromise(c)

Spec == Init /\ [][Next]_vars

\* ------------------------------------------------------------------- claims
\* The router map a channel was created for.
MapOf(c) == IF chanOf[c].map = "request" THEN requests ELSE orders

\* The id of channel c is in its map and bound to c's Sender.
RegisteredTo(c) == contains(MapOf(c), chanOf[c].id) /\ MapOf(c)[chanOf[c].id] = c

\* No later call was made for the same map and id.
Latest(c) == \A d \in Chans : d > c => chanOf[d] # chanOf[c]

\* The message the reader builds from payload p in the current pass.
Msg(p) == [n |-> nread + 1, p |-> p]

\* The reader's pass got past record_response: its message is handed to
\* dispatch_message.
Handed == enabled' = "no" \/ Len(files') = Len(files) + 1

\* The kinds dispatch_message hands to process_order_notifications.
OrderNotification(p) ==
    message_type(p) \in {"OrderStatus", "OpenOrder", "OpenOrderEnd", "ExecutionData",
                         "ExecutionDataEnd", "CommissionsReport"}

\* A reply routed by request id: it carries request id i and is no order notification.
ReplyFor(p, i) ==
    /\ ~OrderNotification(p)
    /\ request_id(p) = {i}
    /\ i # UNSPECIFIED_REQUEST_ID

\* Serial numbers strictly increase along a sequence of messages.
InReadOrder(ms) == \A a, b \in 1..Len(ms) : a < b => ms[a].n < ms[b].n

\* C1: whenever any part of the frame of a registering send is on the wire, the
\* router map of that send (requests or orders) already contains its id.
C1_RegisteredBeforeWrite ==
    \A c \in Chans : wire[c] # "none" => contains(MapOf(c), chanOf[c].id)

\* C1 witness: a send whose header is written and whose data is not yet, its id registered.
C1_Witness ==
    \E c \in Chans : wire[c] = "header" /\ snd.chan = c /\ RegisteredTo(c)

\* C2: once write_message_for_request(id) has returned its stream (and no later call
\* re-registered id), a dispatched reply carrying request id = id that is no order
\* notification is appended to that stream's queue and every other queue is unchanged.
C2_RoutingUniqueness ==
    [][\A p \in Payloads : \A c \in Chans :
          ( /\ nread' = nread + 1
            /\ chanOf[c].map = "request"
            /\ rx[c] = "promise"
            /\ Latest(c)
            /\ ReplyFor(p, chanOf[c].id)
            /\ Handed
            /\ ReadAndDispatch(p) )
          => queue' = [queue EXCEPT ![c] = Append(@, Msg(p))]]_vars

\* C2 witness: a returned request stream holds a reply for its id while a second
\* stream, registered before it, holds nothing.
C2_Witness ==
    \E c, d \in Chans :
        /\ d < c
        /\ chanOf[c].map = "request" /\ rx[c] = "promise"
        /\ \E k \in 1..Len(queue[c]) : ReplyFor(queue[c][k].p, chanOf[c].id)
        /\ RegisteredTo(d) /\ rx[d] = "promise"
        /\ queue[d] = <<>> /\ yielded[d] = <<>>

\* C3: for every stream, the payloads it has yielded followed by those still queued
\* are in the order in which the reader took them off the socket.
C3_DeliveryOrder ==
    \A c \in Chans : InReadOrder(yielded[c] \o queue[c])

\* C3 witness: a stream has yielded two payloads.
C3_Witness ==
    \E c \in Chans : Len(yielded[c]) >= 2

\* C4: when an id is in both maps, a dispatched message that carries it as request id
\* and is no order notification is appended to the request sink (if its receiver is
\* alive) and the order sink's queue is unchanged.
C4_TieBreak ==
    [][\A p \in Payloads : \A i \in Ids :
          ( /\ nread' = nread + 1
            /\ id_in_requests(i) /\ id_in_orders(i)
            /\ ReplyFor(p, i)
            /\ Handed
            /\ ReadAndDispatch(p) )
          => /\ queue'[orders[i]] = queue[orders[i]]
             /\ receiver_alive(requests[i])
                   => queue'[requests[i]] = Append(queue[requests[i]], Msg(p))]_vars

\* C4 witness: the id is in both maps, the order sink registered first and still
\* live, and the reply sits in the request stream while the order stream got nothing.
C4_Witness ==
    \E i \in Ids :
        /\ id_in_requests(i) /\ id_in_orders(i)
        /\ orders[i] < requests[i]
        /\ receiver_alive(orders[i])
        /\ queue[orders[i]] = <<>> /\ yielded[orders[i]] = <<>>
        /\ \E k \in 1..Len(queue[requests[i]]) : ReplyFor(queue[requests[i]][k].p, i)

\* An OpenOrder, OrderStatus or ExecutionData payload carrying order id i.
OrderUpdateFor(p, i) ==
    /\ message_type(p) \in {"OrderStatus", "OpenOrder", "ExecutionData"}
    /\ order_id(p) = {i}

\* C5: once send_order_message(order_id) has registered its sink, every dispatched
\* OpenOrder, OrderStatus and ExecutionData carrying that order id (whatever its
\* request id field) is appended to that order's stream, and the stream yields
\* what it received in arrival order.
C5_OrderUpdatesDelivered ==
    /\ [][\A p \in Payloads : \A c \in Chans :
            ( /\ nread' = nread + 1
              /\ chanOf[c].map = "order"
              /\ RegisteredTo(c)
              /\ receiver_alive(c)
              /\ OrderUpdateFor(p, chanOf[c].id)
              /\ Handed
              /\ ReadAndDispatch(p) )
            => queue'[c] = Append(queue[c], Msg(p))]_vars
    /\ [](\A c \in Chans : chanOf[c].map = "order" => InReadOrder(yielded[c] \o queue[c]))

\* C5 witness: an order stream has yielded an OrderStatus and then an ExecutionData
\* whose request id field is -1.
C5_Witness ==
    \E c \in Chans :
        /\ chanOf[c].map = "order"
        /\ Len(yielded[c]) = 2
        /\ message_type(yielded[c][1].p) = "OrderStatus"
        /\ message_type(yielded[c][2].p) = "ExecutionData"
        /\ request_id(yielded[c][2].p) = {UNSPECIFIED_REQUEST_ID}

\* C6 (as claimed): after a returned promise has been dropped, the router map no
\* longer holds its registration.
C6_DropUnregisters ==
    \A c \in Chans : rx[c] = "dropped" => ~RegisteredTo(c)

\* C7 (as claimed): once a consumer has called signal(id), the signal is with the
\* bus (in signals_in) until the registration has been removed.
C7_SignalReachesBus ==
    \A c \in Chans : signalled[c] => (signals[c] # <<>> \/ ~RegisteredTo(c))

\* C8 (as claimed): after the first transport error the reader leaves its loop, so
\* it never makes a read attempt that fails a second time.
C8_ReaderExitsOnTransportError ==
    transportErrs <= 1

\* C9 (as claimed): a send that starts after the reader has hit a transport error
\* returns an error.
C9_SendsFailAfterReadError ==
    [][(snd.op # "none" /\ snd.afterErr /\ snd'.op = "none") => result' = "err"]_vars

\* C10 (as claimed): whatever the payload, a message that fails to decode is
\* discarded and the reader stays in its loop.
C10_ReaderSurvivesDecodeErrors ==
    [][\A p \in Payloads :
          (nread' = nread + 1 /\ Handed /\ ReadAndDispatch(p)) => rpc' = "read"]_vars

\* A broadcast error: an Error whose third field reads as -1 (or does not parse).
BroadcastError(p) ==
    /\ message_type(p) = "Error"
    /\ unwrap_or(peek_int(p, 2), -1) = UNSPECIFIED_REQUEST_ID

\* dispatch_message hands the message to process_response or
\* process_order_notifications.
Routed(p) ==
    /\ ~BroadcastError(p)
    /\ message_type(p) \notin {"NextValidId", "ManagedAccounts"}

\* Neither map has an entry for id i.
Unregistered(i) == ~id_in_requests(i) /\ ~id_in_orders(i)

\* A routed message none of whose ids (request id, order id) is registered.
RoutingMiss(p) ==
    /\ Routed(p)
    /\ \A i \in request_id(p) \cup order_id(p) : Unregistered(i)

\* C11: dispatching a routed message whose ids are registered in neither map leaves
\* both maps and every queue unchanged and the reader in its loop.  (Stated as:
\* a step from such a state either ends so, or is not the reader's pass for p.)
C11_RoutingMissDiscarded ==
    [][\A p \in Payloads :
          ( /\ nread' = nread + 1
            /\ RoutingMiss(p)
            /\ Handed )
          => \/ /\ queue' = queue
                /\ requests' = requests /\ orders' = orders
                /\ rpc' = "read"
             \/ ~ReadAndDispatch(p)]_vars

\* C11 witness: a stream is registered and waiting, and the reader dispatches a
\* message for another, unregistered id: the pass completes with the reader in its loop.
C11_Witness ==
    \E p \in Payloads : \E c \in Chans :
        /\ RegisteredTo(c) /\ rx[c] = "promise"
        /\ RoutingMiss(p)
        /\ request_id(p) \cup order_id(p) # {}
        /\ ENABLED (ReadAndDispatch(p) /\ Handed /\ rpc' = "read" /\ queue' = queue)

\* C12: an Error whose third field is the id of a registered request (not -1) is
\* appended to that request's stream, no other queue changes, and it is not taken
\* through error_event: server_version is not consulted and the reader stays in its loop.
C12_ErrorRoutedToRequest ==
    [][\A p \in Payloads : \A c \in Chans :
          ( /\ nread' = nread + 1
            /\ message_type(p) = "Error"
            /\ peek_int(p, 2) = {chanOf[c].id}
            /\ chanOf[c].id # UNSPECIFIED_REQUEST_ID
            /\ chanOf[c].map = "request"
            /\ RegisteredTo(c)
            /\ receiver_alive(c)
            /\ Handed
            /\ ReadAndDispatch(p) )
          => /\ queue' = [queue EXCEPT ![c] = Append(@, Msg(p))]
             /\ advanced' = advanced
             /\ rpc' = "read"]_vars

\* C12 witness: the consumer of a request stream has been yielded an Error message
\* carrying the stream's id.
C12_Witness ==
    \E c \in Chans : \E k \in 1..Len(yielded[c]) :
        /\ chanOf[c].map = "request"
        /\ message_type(yielded[c][k].p) = "Error"
        /\ peek_int(yielded[c][k].p, 2) = {chanOf[c].id}
        /\ advanced = "unknown"
        /\ rpc = "read"

\* C13: dispatching an Error whose third field is -1 changes no queue and no map,
\* whatever is registered.  (A step either ends so, or is not the pass for p.)
C13_BroadcastErrorNotRouted ==
    [][\A p \in Payloads :
          ( /\ nread' = nread + 1
            /\ message_type(p) = "Error"
            /\ peek_int(p, 2) = {UNSPECIFIED_REQUEST_ID} )
          => \/ /\ queue' = queue
                /\ requests' = requests /\ orders' = orders
             \/ ~ReadAndDispatch(p)]_vars

\* C13 witness: a registered stream received the first frame; the second frame was a
\* broadcast error (the only message that makes the reader compare server_version),
\* and the stream still holds the first frame only.
C13_Witness ==
    \E c \in Chans :
        /\ RegisteredTo(c) /\ rx[c] = "promise"
        /\ nread = 2
        /\ Len(queue[c]) = 1 /\ queue[c][1].n = 1 /\ yielded[c] = <<>>
        /\ advanced # "unknown"
        /\ rpc = "read"

\* The stream an end marker belongs to under the order-notification rule: the
\* order stream of its order id, or, when it carries no order id, the request
\* stream of its request id.
MarkerStream(p, c) ==
    \/ chanOf[c].map = "order" /\ order_id(p) = {chanOf[c].id}
    \/ chanOf[c].map = "request" /\ order_id(p) = {} /\ request_id(p) = {chanOf[c].id}

\* C14 (as claimed): a dispatched OpenOrderEnd, ExecutionDataEnd or CommissionsReport
\* whose order id (or, failing that, request id) is registered is appended to that
\* id's stream.
C14_EndMarkersRouted ==
    [][\A p \in Payloads : \A c \in Chans :
          ( /\ nread' = nread + 1
            /\ message_type(p) \in {"OpenOrderEnd", "ExecutionDataEnd", "CommissionsReport"}
            /\ MarkerStream(p, c)
            /\ RegisteredTo(c)
            /\ receiver_alive(c)
            /\ Handed
            /\ ReadAndDispatch(p) )
          => queue'[c] = Append(queue[c], Msg(p))]_vars

\* C15: the record ids of the files written, request and response files together,
\* strictly increase in the order the records were taken; so no two are equal.
C15_RecordIdsIncrease ==
    \A a, b \in 1..Len(files) : a < b => files[a].id < files[b].id

\* C15 witness: the reader thread recorded a response and the sending thread then
\* recorded a request.
C15_Witness ==
    /\ enabled = "yes"
    /\ Len(files) = 2
    /\ files[1].kind = "response" /\ files[2].kind = "request"
    /\ nread = 1 /\ NChan + nplain = 1

\* A record id was taken in this step and no file came of it: fs::write failed.
RecordFailed == RECORDING_SEQ' # RECORDING_SEQ /\ files' = files

\* C16 (as claimed): when fs::write fails in record_request the send still returns
\* Ok, and when it fails in record_response the reader stays in its loop.
C16_RecordingFailureNonFatal ==
    [][/\ (Step = "record" /\ RecordFailed /\ RecordRequest)
            => (snd'.op = "none" /\ result' = "ok")
       /\ \A p \in Payloads :
            (nread' = nread + 1 /\ RecordFailed /\ ReadAndDispatch(p))
            => rpc' = "read"]_vars

\* An earlier registering send returned Err from write_message (its Receiver was
\* dropped with the call) while the caller thread lives on.
WriteFailedBefore == \E c \in Chans : rx[c] = "failed" /\ c # snd.chan

\* C17 (as claimed): once a send has failed on a socket write, every send that
\* returns afterwards returns an error.
C17_WriteErrorClosesBus ==
    [][(WriteFailedBefore /\ snd.op # "none" /\ snd'.op = "none") => result' = "err"]_vars

\* C18 (as claimed): once next() has timed out on a stream, its id is unregistered,
\* so nothing is enqueued on the stream any more.
C18_TimeoutUnregisters ==
    [][\A c \in Chans : timed_out[c] => Len(queue'[c]) <= Len(queue[c])]_vars

\* C19 (as claimed): dispatching a NextValidId hands the order id it carries (its
\* third field) to the facade's next-order-id slot, and changes no queue.
C19_NextValidIdPublished ==
    [][\A p \in Payloads :
          ( /\ nread' = nread + 1
            /\ message_type(p) = "NextValidId"
            /\ Handed
            /\ ReadAndDispatch(p) )
          => /\ next_order_id' = peek_int(p, 2)
             /\ queue' = queue]_vars

\* Every sink registered for an id the message carries has lost its Receiver, and
\* there is such a sink.
SinksClosed(p) ==
    LET ids == request_id(p) \cup order_id(p) IN
    /\ \E i \in ids : ~Unregistered(i)
    /\ \A i \in ids :
          /\ id_in_requests(i) => ~receiver_alive(requests[i])
          /\ id_in_orders(i) => ~receiver_alive(orders[i])

Overwritten(c) == \E d \in Chans : d > c /\ chanOf[d] = chanOf[c] /\ RegisteredTo(d)

\* A message dispatch_message routes to the sink registered for id i of the map.
RoutedTo(p, map, i) ==
    \/ map = "request" /\ ReplyFor(p, i)
    \/ map = "order" /\ OrderUpdateFor(p, i)

\* C21: a map binds an id to the sink of the latest send for it: a returned stream
\* that no later call re-registered is the one in the map; once a later send for
\* the same map and id has registered, no step enqueues anything on the earlier
\* stream, and a dispatched reply for the id is appended to the newest stream.
C21_InsertOverwrites ==
    /\ [](\A c \in Chans : (rx[c] = "promise" /\ Latest(c)) => RegisteredTo(c))
    /\ [][\A c \in Chans : Overwritten(c) => Len(queue'[c]) <= Len(queue[c])]_vars
    /\ [][\A p \in Payloads : \A d \in Chans :
            ( /\ nread' = nread + 1
              /\ \E c \in Chans : c < d /\ chanOf[c] = chanOf[d]
              /\ RegisteredTo(d)
              /\ receiver_alive(d)
              /\ RoutedTo(p, chanOf[d].map, chanOf[d].id)
              /\ Handed )
            => \/ queue' = [queue EXCEPT ![d] = Append(@, Msg(p))]
               \/ ~ReadAndDispatch(p)]_vars

\* C21 witness: two streams were returned for the same id of the same map; the
\* reply sits in the second and the first, still open, has received nothing.
C21_Witness ==
    \E c, d \in Chans :
        /\ c < d /\ chanOf[c] = chanOf[d]
        /\ rx[c] = "promise" /\ rx[d] = "promise"
        /\ queue[c] = <<>> /\ yielded[c] = <<>>
        /\ \E k \in 1..Len(queue[d]) :
              RoutedTo(queue[d][k].p, chanOf[d].map, chanOf[d].id)

\* An OrderStatus, OpenOrder or ExecutionData payload that carries an order id.
CarriesOrderId(p) ==
    /\ message_type(p) \in {"OrderStatus", "OpenOrder", "ExecutionData"}
    /\ order_id(p) # {}

\* C22: dispatching an OrderStatus, OpenOrder or ExecutionData that carries an order
\* id changes the queue of no request sink, and changes no queue at all when the
\* order id is not in orders, whatever the requests map holds.  (A step either
\* ends so, or is not the pass for p.)
C22_OrderUpdatesOnlyToOrders ==
    [][\A p \in Payloads :
          ( /\ nread' = nread + 1
            /\ CarriesOrderId(p) )
          => \/ /\ \A c \in Chans : chanOf[c].map = "request" => queue'[c] = queue[c]
                /\ (\A i \in order_id(p) : ~id_in_orders(i)) => queue' = queue
             \/ ~ReadAndDispatch(p)]_vars

\* C22 witness: a request stream and, after it, an order stream were returned for
\* the same id; an order update for the id sits in the order stream and the request
\* stream, still open and registered, has received nothing.
C22_Witness ==
    \E c, d \in Chans :
        /\ c < d
        /\ chanOf[c].map = "request" /\ chanOf[d].map = "order"
        /\ chanOf[c].id = chanOf[d].id
        /\ RegisteredTo(c) /\ rx[c] = "promise"
        /\ queue[c] = <<>> /\ yielded[c] = <<>>
        /\ \E k \in 1..Len(queue[d]) : OrderUpdateFor(queue[d][k].p, chanOf[d].id)

\* This step is a registering send returning Err.
SendFails == snd.chan # 0 /\ snd'.op = "none" /\ result' = "err"

\* C23: when a registering send returns Err, its id is in its map, bound to the
\* sink created by that call, whose Receiver is dropped with the call; and no step
\* ever takes an id out of either map.
C23_FailedSendStaysRegistered ==
    /\ [][SendFails =>
            /\ RegisteredTo(snd.chan)
            /\ requests' = requests /\ orders' = orders
            /\ rx'[snd.chan] = "failed"]_vars
    /\ [][/\ DOMAIN requests \subseteq DOMAIN requests'
          /\ DOMAIN orders \subseteq DOMAIN orders']_vars

\* C23 witness: a send has returned Err on its data write, and its id is
\* registered to the sink it left behind.
C23_Witness ==
    \E c \in Chans :
        /\ rx[c] = "failed" /\ wire[c] = "header"
        /\ RegisteredTo(c)
        /\ result = "err" /\ snd.op = "none"

====
